---------------------------- MODULE Spec2Model ----------------------------
(***************************************************************************)
(* A model of pflow-xyz/metamodel-rs: the PetriNet graph and its DSL       *)
(* builder (petri_net.rs, dsl.rs), the compiler StateMachine::from_model   *)
(* and the firing engine Vasm::transform (vasm.rs).                        *)
(*                                                                         *)
(* Conventions.  Option<T> is a sequence: <<>> is None, <<v>> is Some(v).  *)
(* A HashMap is a function whose DOMAIN is its key set.  A Vec is a        *)
(* sequence, so the Rust index i is the TLA+ index i + 1.                  *)
(***************************************************************************)
EXTENDS Integers, Sequences, FiniteSets, TLC

VARIABLES
    net,      \* the PetriNet under construction (Model.net)
    vm,       \* the machines compiled from net, in order: <<>> before the
              \* first compile, <<sm>> after it (Model.vm)
    phase,    \* "declare" | "ready" | "panicked": where the caller is
    marking,  \* the caller's state vector, threaded through transform calls
    call,     \* Option<[action, multiple]>: arguments of the last transform
    tx,       \* Option<Transaction or panic>: what the last transform returned
    place_order \* Option<order>: the order in which net.places iterates, once
                \* a compile has iterated it (a HashMap that is not modified
                \* iterates in the same order every time)

vars == <<net, vm, phase, marking, call, tx, place_order>>

----------------------------------------------------------------------------
(* Bounds of the explored inputs. *)

\* arcs declared per graph
MaxArcs == 2
\* arc weights are drawn from 1..MaxWeight
MaxWeight == 2
\* a declared capacity is None or Some(MaxCapacity)
MaxCapacity == 1
\* slots of a caller-made marking are drawn from -1..MaxTokens
MaxTokens == 2
\* multipliers are drawn from -1..MaxMultiple
MaxMultiple == 2
\* arcs declared per graph when only compiling is explored
MaxCompileArcs == 1
\* from_model calls on one graph
MaxCompiles == 2

PlaceLabels == <<"p0", "p1">>
TransitionLabels == <<"t0">>
Roles == <<"admin">>
ModelTypeStrings == {"petriNet", "elementary", "workflow"}

Weights == 1..MaxWeight
Multiples == (-1)..MaxMultiple
Tokens == (-1)..MaxTokens

----------------------------------------------------------------------------
(* Option and Vec helpers. *)

None == <<>>
Some(v) == <<v>>
is_none(o) == o = <<>>
unwrap_or(o, d) == IF o = <<>> THEN d ELSE o[1]

\* vec![v; n]
vec(v, n) == [i \in 1..n |-> v]

\* v[offset] = x for a usize offset already known to be in range
vec_set(v, offset, x) == [v EXCEPT ![offset + 1] = x]

\* HashMap::insert
insert(map, k, v) == (k :> v) @@ map

\* every order in which a HashMap with key set S may be iterated
IterationOrders(S) ==
    {s \in [1..Cardinality(S) -> S] : \A i, j \in 1..Cardinality(S) : s[i] = s[j] => i = j}

----------------------------------------------------------------------------
(* petri_net.rs: the graph. *)

\* PetriNet::default / PetriNet::new
PetriNet_new ==
    [model_type |-> "petriNet", places |-> <<>>, transitions |-> <<>>, arcs |-> <<>>]

\* PetriNet::add_place: insert, replacing any place of that label
add_place(self, label, offset, initial, capacity) ==
    [self EXCEPT !.places =
        insert(self.places, label,
               [offset |-> offset, initial |-> initial, capacity |-> capacity])]

\* PetriNet::add_transition: the offset is the number of transitions so far
add_transition(self, label, role) ==
    [self EXCEPT !.transitions =
        insert(self.transitions, label,
               [role |-> Some(role), offset |-> Cardinality(DOMAIN self.transitions)])]

\* PetriNet::add_arc
add_arc(self, params) == [self EXCEPT !.arcs = Append(self.arcs, params)]

\* faulty variant: consume is inferred even when the caller has set it
populate_arc_overwriting(self, arc) ==
    [arc EXCEPT !.consume = Some(arc.source \in DOMAIN self.places),
                !.produce = IF is_none(arc.produce)
                            THEN Some(arc.source \in DOMAIN self.transitions)
                            ELSE arc.produce,
                !.read    = IF is_none(arc.read)
                            THEN Some(arc.source \in DOMAIN self.transitions
                                      /\ unwrap_or(arc.inhibit, FALSE))
                            ELSE arc.read]

\* faulty variant: consume is inferred on every pass, and only while produce
\* is still unset
populate_arc_reinferring(self, arc) ==
    [arc EXCEPT !.consume = Some(is_none(arc.produce) /\ arc.source \in DOMAIN self.places),
                !.produce = IF is_none(arc.produce)
                            THEN Some(arc.source \in DOMAIN self.transitions)
                            ELSE arc.produce,
                !.read    = IF is_none(arc.read)
                            THEN Some(arc.source \in DOMAIN self.transitions
                                      /\ unwrap_or(arc.inhibit, FALSE))
                            ELSE arc.read]

\* One arc of PetriNet::populate_arc_attributes: only unset attributes are inferred
populate_arc(self, arc) ==
    LET consume == IF is_none(arc.consume)
                   THEN Some(arc.source \in DOMAIN self.places)
                   ELSE arc.consume
        produce == IF is_none(arc.produce)
                   THEN Some(arc.source \in DOMAIN self.transitions)
                   ELSE arc.produce
        read    == IF is_none(arc.read)
                   THEN Some(arc.source \in DOMAIN self.transitions
                             /\ unwrap_or(arc.inhibit, FALSE))
                   ELSE arc.read
    IN  [arc EXCEPT !.consume = consume, !.produce = produce, !.read = read]

\* PetriNet::populate_arc_attributes
populate_arc_attributes(self) ==
    [self EXCEPT !.arcs = [i \in 1..Len(self.arcs) |-> populate_arc(self, self.arcs[i])]]

----------------------------------------------------------------------------
(* dsl.rs: the Builder over a PetriNet.  A call that panics leaves no net. *)

\* Builder::model_type
model_type(self, mt) == [self EXCEPT !.model_type = mt]

\* Builder::cell: the offset is the number of places so far
cell(self, label, initial, capacity) ==
    add_place(self, label, Cardinality(DOMAIN self.places), initial, capacity)

\* Builder::func
func(self, label, role) == add_transition(self, label, role)

\* faulty variant: the weight is asserted after the arc was added
arrow_asserting_late(self, source, target, weight) ==
    [panicked |-> ~(weight > 0),
     net |-> add_arc(self, [source |-> source, target |-> target,
                            weight |-> Some(weight), consume |-> None,
                            produce |-> None, inhibit |-> None, read |-> None])]

\* Builder::arrow: asserts weight > 0, then adds an arc with nothing inferred yet
arrow(self, source, target, weight) ==
    IF ~(weight > 0)
    THEN [panicked |-> TRUE, net |-> self]
    ELSE [panicked |-> FALSE,
          net |-> add_arc(self, [source |-> source, target |-> target,
                                 weight |-> Some(weight), consume |-> None,
                                 produce |-> None, inhibit |-> None, read |-> None])]

\* Builder::guard: asserts weight > 0, then adds an inhibiting arc
guard(self, source, target, weight) ==
    IF ~(weight > 0)
    THEN [panicked |-> TRUE, net |-> self]
    ELSE [panicked |-> FALSE,
          net |-> add_arc(self, [source |-> source, target |-> target,
                                 weight |-> Some(weight), consume |-> Some(TRUE),
                                 produce |-> None, inhibit |-> Some(TRUE), read |-> None])]

----------------------------------------------------------------------------
(* vasm.rs: the compiler. *)

\* str::to_lowercase on the model type strings a caller may declare
to_lowercase(str) ==
    CASE str \in {"petriNet", "PetriNet", "petrinet", "PETRINET"}   -> "petrinet"
      [] str \in {"elementary", "Elementary", "ELEMENTARY"}         -> "elementary"
      [] str \in {"workflow", "Workflow", "WORKFLOW"}               -> "workflow"
      [] OTHER                                                      -> str

\* faulty variant: an unknown type string falls back to PetriNet
model_type_from_string_default(str) ==
    CASE to_lowercase(str) = "elementary" -> Some("Elementary")
      [] to_lowercase(str) = "workflow"   -> Some("Workflow")
      [] OTHER                            -> Some("PetriNet")

\* model_type_from_string: None stands for the panic "unknown model type"
model_type_from_string(str) ==
    CASE to_lowercase(str) = "elementary" -> Some("Elementary")
      [] to_lowercase(str) = "workflow"   -> Some("Workflow")
      [] to_lowercase(str) = "petrinet"   -> Some("PetriNet")
      [] OTHER                            -> None

\* faulty variant: the compiler marks every transition allow_reentry
new_transitions_reentrant(model, vector_size) ==
    [k \in DOMAIN model.transitions |->
        [label         |-> k,
         role          |-> unwrap_or(model.transitions[k].role, "default"),
         delta         |-> vec(0, vector_size),
         guards        |-> <<>>,
         allow_reentry |-> TRUE,
         offset        |-> model.transitions[k].offset]]

\* from_model, lines 139-155: one Transition per graph transition, zero delta,
\* no guards, allow_reentry false
new_transitions(model, vector_size) ==
    [k \in DOMAIN model.transitions |->
        [label         |-> k,
         role          |-> unwrap_or(model.transitions[k].role, "default"),
         delta         |-> vec(0, vector_size),
         guards        |-> <<>>,
         allow_reentry |-> FALSE,
         offset        |-> model.transitions[k].offset]]

\* from_model, lines 132-135: the roles of the graph's transitions
new_roles(model) ==
    [r \in {unwrap_or(model.transitions[k].role, "default") : k \in DOMAIN model.transitions}
        |-> TRUE]

\* faulty variant: an arc with a missing end is skipped
missing_end_skipped(transitions) == [panicked |-> FALSE, transitions |-> transitions]

\* from_model, lines 166-177: the panics "place not found" and "transition not
\* found" of an arc whose place end or transition end cannot be looked up
missing_end(transitions) == [panicked |-> TRUE, transitions |-> transitions]

\* faulty variant: a guard arc also moves tokens
with_guard_consuming(t, key, g) ==
    [t EXCEPT !.guards = insert(t.guards, key, g),
              !.delta  = [i \in 1..Len(t.delta) |-> t.delta[i] + g.delta[i]]]

\* from_model, lines 182-189: t.guards.insert(target.clone(), Guard { delta, read })
with_guard(t, key, g) == [t EXCEPT !.guards = insert(t.guards, key, g)]

\* from_model, the body of model.arcs.iter().for_each: one arc applied to the
\* transition map; panicked when a lookup or an index fails
apply_arc(model, transitions, arc, vector_size) ==
    LET source  == arc.source
        target  == arc.target
        weight  == unwrap_or(arc.weight, 1)
        consume == unwrap_or(arc.consume, FALSE)
        produce == unwrap_or(arc.produce, FALSE)
        inhibit == unwrap_or(arc.inhibit, FALSE)
        read    == unwrap_or(arc.read, FALSE)
        pkey    == IF read \/ produce THEN target ELSE source
        tkey    == IF read \/ produce THEN source ELSE target
    IN  IF pkey \notin DOMAIN model.places \/ tkey \notin DOMAIN transitions
        THEN missing_end(transitions)
        ELSE
        LET offset == model.places[pkey].offset
            t      == transitions[tkey]
        IN  IF offset < 0 \/ offset >= vector_size
            THEN [panicked |-> TRUE, transitions |-> transitions]
            ELSE
            LET delta == vec_set(vec(0, vector_size), offset, 0 - weight)
                t2 == IF inhibit
                      THEN with_guard(t, target, [delta |-> delta, read |-> read])
                      ELSE IF consume
                      THEN [t EXCEPT !.delta = vec_set(t.delta, offset, 0 - weight)]
                      ELSE [t EXCEPT !.delta = vec_set(t.delta, offset, weight)]
            IN  [panicked |-> FALSE, transitions |-> [transitions EXCEPT ![tkey] = t2]]

\* from_model, lines 157-197: the arcs in list order, stopping at the first panic
RECURSIVE apply_arcs(_, _, _, _)
apply_arcs(model, transitions, vector_size, i) ==
    IF i > Len(model.arcs)
    THEN [panicked |-> FALSE, transitions |-> transitions]
    ELSE LET r == apply_arc(model, transitions, model.arcs[i], vector_size)
         IN  IF r.panicked THEN r
             ELSE apply_arcs(model, r.transitions, vector_size, i + 1)

\* faulty variant: the initial count is not clamped for any model type
initial_of_unclamped(mt, i) == i

\* from_model, lines 208-214: the initial value of a place by model type
initial_of(mt, i) ==
    IF mt = "PetriNet" THEN i ELSE IF i = 0 THEN 0 ELSE 1

\* faulty variant: the declared capacity is taken for every model type
capacity_of_declared(mt, place) == unwrap_or(place.capacity, 0)

\* from_model, lines 217-220: the capacity of a place by model type
capacity_of(mt, place) ==
    IF mt = "PetriNet" THEN unwrap_or(place.capacity, 0) ELSE 1

\* faulty variant: a negative initial count is let through
initial_is_valid_any(i) == TRUE

\* from_model, line 205: assert!(i >= 0, "initial must be non-negative")
initial_is_valid(i) == i >= 0

\* from_model, lines 203-222: the places in the HashMap's iteration order
\* placeIter, each written at its offset; panicked on a negative initial or an
\* offset outside the vectors
RECURSIVE apply_places(_, _, _, _, _)
apply_places(model, mt, placeIter, acc, n) ==
    IF n > Len(placeIter)
    THEN acc
    ELSE LET k == placeIter[n]
             v == model.places[k]
             i == unwrap_or(v.initial, 0)
         IN  IF ~initial_is_valid(i) \/ v.offset < 0 \/ v.offset >= Len(acc.initial)
             THEN [acc EXCEPT !.panicked = TRUE]
             ELSE apply_places(model, mt, placeIter,
                    [panicked |-> FALSE,
                     initial  |-> vec_set(acc.initial, v.offset, initial_of(mt, i)),
                     capacity |-> vec_set(acc.capacity, v.offset, capacity_of(mt, v)),
                     places   |-> vec_set(acc.places, v.offset, k)],
                    n + 1)

\* faulty variant: the labels are left in the map's iteration order
sort_by_offset_unsorted(transitions, iter, n) == SubSeq(iter, 1, n)

\* Vec::sort_by_key(offset), a stable sort: label k goes after every label
\* already placed whose offset is not larger
RECURSIVE sort_by_offset(_, _, _)
sort_by_offset(transitions, iter, n) ==
    IF n = 0 THEN <<>>
    ELSE LET sorted == sort_by_offset(transitions, iter, n - 1)
             k      == iter[n]
             before == {j \in 1..Len(sorted) :
                           transitions[sorted[j]].offset <= transitions[k].offset}
             at     == Cardinality(before)
         IN  SubSeq(sorted, 1, at) \o <<k>> \o SubSeq(sorted, at + 1, Len(sorted))

\* from_model, lines 223-225
sorted_actions(transitions, transIter) ==
    sort_by_offset(transitions, transIter, Len(transIter))

NoMachine ==
    [model_type |-> "PetriNet", initial |-> <<>>, capacity |-> <<>>, places |-> <<>>,
     transitions |-> <<>>, roles |-> <<>>, actions |-> <<>>]

\* StateMachine::from_model(&mut model): the model after the call (its arcs
\* populated) and the machine, or panicked.  placeIter and transIter are the
\* orders in which the two HashMaps happen to be iterated.
from_model(model, placeIter, transIter) ==
    LET mt == model_type_from_string(model.model_type)
    IN  IF is_none(mt)
        THEN [panicked |-> TRUE, model |-> model, sm |-> NoMachine]
        ELSE
        LET populated   == populate_arc_attributes(model)
            vector_size == Cardinality(DOMAIN populated.places)
            arcs == apply_arcs(populated, new_transitions(populated, vector_size),
                               vector_size, 1)
            pl   == apply_places(populated, mt[1], placeIter,
                                 [panicked |-> FALSE,
                                  initial  |-> vec(0, vector_size),
                                  capacity |-> vec(0, vector_size),
                                  places   |-> vec("", vector_size)], 1)
        IN  IF arcs.panicked \/ pl.panicked
            THEN [panicked |-> TRUE, model |-> populated, sm |-> NoMachine]
            ELSE [panicked |-> FALSE,
                  model    |-> populated,
                  sm       |-> [model_type  |-> mt[1],
                                initial     |-> pl.initial,
                                capacity    |-> pl.capacity,
                                places      |-> pl.places,
                                transitions |-> arcs.transitions,
                                roles       |-> new_roles(populated),
                                actions     |-> sorted_actions(arcs.transitions, transIter)]]

\* StateMachine::new(declaration), after net.declare(declaration): as_vasm,
\* then model_type and actions are set again from the net, whose transitions
\* are iterated in the order netIter
StateMachine_new(model, placeIter, transIter, netIter) ==
    LET r == from_model(model, placeIter, transIter)
    IN  IF r.panicked THEN r
        ELSE [r EXCEPT !.sm.model_type = model_type_from_string(r.model.model_type)[1],
                       !.sm.actions = sort_by_offset(r.model.transitions, netIter,
                                                     Len(netIter))]

----------------------------------------------------------------------------
(* vasm.rs: the firing engine. *)

\* delta.get(i).unwrap_or(&0), for the TLA+ index i
get_or_zero(delta, i) == IF i \in 1..Len(delta) THEN delta[i] ELSE 0

\* faulty variant: a multiplier above 1 fires once
slot_value_single(state, delta, multiple, i) ==
    state[i] + get_or_zero(delta, i) * (IF multiple > 1 THEN 1 ELSE multiple)

\* faulty variant: the sign of the multiplier is dropped
slot_value_absolute(state, delta, multiple, i) ==
    state[i] + get_or_zero(delta, i) * (IF multiple < 0 THEN 0 - multiple ELSE multiple)

\* faulty variant: a slot never goes below zero
slot_value_floored(state, delta, multiple, i) ==
    IF state[i] + get_or_zero(delta, i) * multiple < 0
    THEN 0
    ELSE state[i] + get_or_zero(delta, i) * multiple

\* faulty variant: the multiplier is dropped
slot_value_unscaled(state, delta, multiple, i) == state[i] + get_or_zero(delta, i)

\* vector_add, line 100: state[i] + delta.get(i).unwrap_or(&0) * multiple
slot_value(state, delta, multiple, i) == state[i] + get_or_zero(delta, i) * multiple

\* faulty variant: a slot of -1 passes for empty
is_underflow_below_minus_one(x) == x < -1

\* vector_add, line 101: output[i] < 0
is_underflow(x) == x < 0

\* faulty variant: one token above the capacity is let through
is_overflow_off_by_one(cap, x) == cap > 0 /\ cap - x < -1

\* faulty variant: capacity 0 is a bound like any other
is_overflow_zero_bound(cap, x) == cap >= 0 /\ cap - x < 0

\* vector_add, line 104: capacity[i] > 0 && capacity[i] - output[i] < 0
is_overflow(cap, x) == cap > 0 /\ cap - x < 0

\* vector_add: one output slot per slot of state; a slot below zero is an
\* underflow, otherwise capacity[i] is read (a panic when state is longer than
\* capacity) and a bounded slot above its capacity is an overflow
vector_add(capacity, state, delta, multiple) ==
    LET output == [i \in 1..Len(state) |-> slot_value(state, delta, multiple, i)]
        underflow == \E i \in 1..Len(state) : is_underflow(output[i])
        overflow  == \E i \in 1..Len(state) :
                        /\ ~is_underflow(output[i])
                        /\ i <= Len(capacity)
                        /\ is_overflow(capacity[i], output[i])
    IN  [panicked  |-> \E i \in 1..Len(state) : ~is_underflow(output[i]) /\ i > Len(capacity),
         output    |-> output,
         ok        |-> ~underflow /\ ~overflow,
         overflow  |-> overflow,
         underflow |-> underflow]

\* faulty variant: an inhibitor guard is evaluated like a read guard
guard_inhibits_as_read(read, threshold_met) == ~threshold_met

\* faulty variant: a read guard never inhibits
guard_inhibits_never_read(read, threshold_met) == ~read /\ threshold_met

\* guard_fails, lines 242-248: a read guard inhibits below its threshold, any
\* other guard at or above it
guard_inhibits(read, threshold_met) ==
    IF read THEN ~threshold_met ELSE threshold_met

\* faulty variant: the guard weight is not scaled by the multiplier
guard_outcome_unscaled(self, state, g, multiple) ==
    LET r == vector_add(self.capacity, state, g.delta, 1)
    IN  IF r.panicked THEN "panics"
        ELSE IF guard_inhibits(g.read, r.ok) THEN "inhibits" ELSE "passes"

\* One guard of guard_fails: "inhibits" | "passes" | "panics"
guard_outcome(self, state, g, multiple) ==
    LET r == vector_add(self.capacity, state, g.delta, multiple)
        threshold_met == r.ok
    IN  IF r.panicked THEN "panics"
        ELSE IF guard_inhibits(g.read, threshold_met) THEN "inhibits" ELSE "passes"

\* faulty variant: only the guard visited first decides
guard_fails_first_only(self, state, transition, multiple, guardIter, n) ==
    IF n > Len(guardIter)
    THEN [panicked |-> FALSE, inhibited |-> FALSE]
    ELSE LET o == guard_outcome(self, state, transition.guards[guardIter[n]], multiple)
         IN  [panicked |-> o = "panics", inhibited |-> o = "inhibits"]

\* guard_fails: the guards in the HashMap's iteration order guardIter, from
\* the n-th on; the first guard that inhibits (or panics) ends the loop
RECURSIVE guard_fails_from(_, _, _, _, _, _)
guard_fails_from(self, state, transition, multiple, guardIter, n) ==
    IF n > Len(guardIter)
    THEN [panicked |-> FALSE, inhibited |-> FALSE]
    ELSE LET o == guard_outcome(self, state, transition.guards[guardIter[n]], multiple)
         IN  CASE o = "panics"   -> [panicked |-> TRUE, inhibited |-> FALSE]
               [] o = "inhibits" -> [panicked |-> FALSE, inhibited |-> TRUE]
               [] OTHER -> guard_fails_from(self, state, transition, multiple,
                                            guardIter, n + 1)

\* StateMachine::guard_fails
guard_fails(self, state, transition, multiple, guardIter) ==
    guard_fails_from(self, state, transition, multiple, guardIter, 1)

\* output.iter().filter(|&x| *x > 0).count()
output_state_count(output) == Cardinality({i \in 1..Len(output) : output[i] > 0})

Panic ==
    [panicked |-> TRUE, output |-> <<>>, ok |-> FALSE, role |-> "",
     inhibited |-> FALSE, overflow |-> FALSE, underflow |-> FALSE]

\* faulty variant: an inhibited firing is still ok
petri_net_ok_uninhibited(ok, inhibited) == ok

\* faulty variant: the bounds no longer gate ok
petri_net_ok_unbounded(ok, inhibited) == ~inhibited

\* petri_net_fire, line 265: ok && !inhibited
petri_net_ok(ok, inhibited) == ok /\ ~inhibited

\* StateMachine::petri_net_fire
petri_net_fire(self, state, transition, multiple, guardIter) ==
    LET va == vector_add(self.capacity, state, transition.delta, multiple)
        gf == guard_fails(self, state, transition, multiple, guardIter)
    IN  IF va.panicked \/ gf.panicked THEN Panic
        ELSE [panicked  |-> FALSE,
              output    |-> va.output,
              ok        |-> petri_net_ok(va.ok, gf.inhibited),
              role      |-> transition.role,
              inhibited |-> gf.inhibited,
              overflow  |-> va.overflow,
              underflow |-> va.underflow]

\* faulty variant: the bounds no longer gate an Elementary firing
elementary_ok_unbounded(ok, count, inhibited) == count = 1 /\ ~inhibited

\* faulty variant: the count of active places is not checked
elementary_ok_any_count(ok, count, inhibited) == ok /\ ~inhibited

\* elementary_fire, line 284: ok && output_state_count == 1 && !inhibited
elementary_ok(ok, count, inhibited) == ok /\ count = 1 /\ ~inhibited

\* StateMachine::elementary_fire
elementary_fire(self, state, transition, multiple, guardIter) ==
    LET va == vector_add(self.capacity, state, transition.delta, multiple)
        gf == guard_fails(self, state, transition, multiple, guardIter)
    IN  IF va.panicked \/ gf.panicked THEN Panic
        ELSE [panicked  |-> FALSE,
              output    |-> va.output,
              ok        |-> elementary_ok(va.ok, output_state_count(va.output), gf.inhibited),
              role      |-> transition.role,
              inhibited |-> gf.inhibited,
              overflow  |-> va.overflow,
              underflow |-> va.underflow]

\* faulty variant: an emptied place counts as active
workflow_clamp_zero_active(x) == IF x = -1 THEN 0 ELSE 1

\* faulty variant: every value below 1 becomes 0
workflow_clamp_nonpositive(x) == IF x <= 0 THEN 0 ELSE 1

\* workflow_fire, lines 305-313: 0 and -1 become 0, every other value 1
workflow_clamp(x) == IF x = 0 \/ x = -1 THEN 0 ELSE 1

\* faulty variant: the count of active places is not checked
workflow_ok_any_count(count, inhibited) == ~inhibited

\* workflow_fire, line 328: output_state_count == 1 && !inhibited
workflow_ok(count, inhibited) == count = 1 /\ ~inhibited

\* faulty variant: the transition's allow_reentry mark is not looked at
reentry_accepted_unmarked(inhibited, overflow, count, allow_reentry) ==
    ~inhibited /\ overflow /\ count = 1

\* workflow_fire, line 315: !inhibited && overflow && output_state_count == 1
\* && transition.allow_reentry
reentry_accepted(inhibited, overflow, count, allow_reentry) ==
    ~inhibited /\ overflow /\ count = 1 /\ allow_reentry

\* StateMachine::workflow_fire
workflow_fire(self, state, transition, multiple, guardIter) ==
    LET va == vector_add(self.capacity, state, transition.delta, multiple)
        gf == guard_fails(self, state, transition, multiple, guardIter)
        workflow_output == [i \in 1..Len(va.output) |-> workflow_clamp(va.output[i])]
        count == output_state_count(workflow_output)
    IN  IF va.panicked \/ gf.panicked THEN Panic
        ELSE IF reentry_accepted(gf.inhibited, va.overflow, count, transition.allow_reentry)
        THEN [panicked  |-> FALSE,
              output    |-> workflow_output,
              ok        |-> TRUE,
              role      |-> transition.role,
              inhibited |-> gf.inhibited,
              overflow  |-> FALSE,
              underflow |-> va.underflow]
        ELSE [panicked  |-> FALSE,
              output    |-> workflow_output,
              ok        |-> workflow_ok(count, gf.inhibited),
              role      |-> transition.role,
              inhibited |-> gf.inhibited,
              overflow  |-> va.overflow,
              underflow |-> va.underflow]

\* faulty variant: one slot per action
empty_vector_per_action(self) == vec(0, Len(self.actions))

\* Vasm::empty_vector
empty_vector(self) == vec(0, Len(self.places))

\* Vasm::initial_vector
initial_vector(self) == self.initial

\* the orders in which guard_fails may visit the guards of an action
GuardOrders(self, action) ==
    IF action \in DOMAIN self.transitions
    THEN IterationOrders(DOMAIN self.transitions[action].guards)
    ELSE {<<>>}

\* faulty variant: an unknown action yields a failed Transaction
no_transition_failed(action) == [Panic EXCEPT !.panicked = FALSE]

\* transform, lines 421-424: panic!("no transition for {action}")
no_transition(action) == Panic

\* Vasm::transform for StateMachine: the Transaction, or the panic of an
\* unknown action
transform(self, state, action, multiple, guardIter) ==
    IF action \notin DOMAIN self.transitions
    THEN no_transition(action)
    ELSE LET transition == self.transitions[action]
         IN  CASE self.model_type = "Elementary" ->
                    elementary_fire(self, state, transition, multiple, guardIter)
               [] self.model_type = "Workflow" ->
                    workflow_fire(self, state, transition, multiple, guardIter)
               [] OTHER ->
                    petri_net_fire(self, state, transition, multiple, guardIter)

\* faulty variant: the machine keeps the last output as its initial vector
transform_call_caching(self, state, action, multiple, guardIter) ==
    [self   |-> [self EXCEPT !.initial =
                    transform(self, state, action, multiple, guardIter).output],
     state  |-> state,
     result |-> transform(self, state, action, multiple, guardIter)]

\* A StateMachine read back through its Deserialize implementation from a
\* serialized machine in which the transitions are marked allow_reentry
deserialize_reentrant(self) ==
    [self EXCEPT !.transitions =
        [k \in DOMAIN self.transitions |->
            [self.transitions[k] EXCEPT !.allow_reentry = TRUE]]]

\* faulty variant: the output is written into the caller's state
transform_call_in_place(self, state, action, multiple, guardIter) ==
    [self   |-> self,
     state  |-> transform(self, state, action, multiple, guardIter).output,
     result |-> transform(self, state, action, multiple, guardIter)]

\* What a transform call leaves behind: it borrows the machine and the state
\* immutably (&self, &Vector) and hands the result back by value
transform_call(self, state, action, multiple, guardIter) ==
    [self   |-> self,
     state  |-> state,
     result |-> transform(self, state, action, multiple, guardIter)]

----------------------------------------------------------------------------
(* The session: a caller declares a graph through the Builder, compiles it   *)
(* (Builder::as_vasm, as Model::new does), then fires transitions, holding   *)
(* its own marking.                                                           *)

Init ==
    /\ net = PetriNet_new
    /\ vm = None
    /\ phase = "declare"
    /\ marking = <<>>
    /\ call = None
    /\ tx = None
    /\ place_order = None

declared_places == DOMAIN net.places
declared_transitions == DOMAIN net.transitions

\* the label a session gives its next place / transition: labels are distinct
next_place == PlaceLabels[Cardinality(declared_places) + 1]
next_transition == TransitionLabels[Cardinality(declared_transitions) + 1]

\* the arcs a session declares join a declared place and a declared transition
ArcEnds ==
    (declared_places \X declared_transitions) \cup (declared_transitions \X declared_places)

\* p.model_type(mt)
DeclareModelType(mt) ==
    /\ phase = "declare"
    /\ net' = model_type(net, mt)
    /\ UNCHANGED <<vm, phase, marking, call, tx, place_order>>

\* p.cell(label, initial, capacity, x, y)
DeclareCell(label, initial, capacity) ==
    /\ phase = "declare"
    /\ net' = cell(net, label, initial, capacity)
    /\ UNCHANGED <<vm, phase, marking, call, tx, place_order>>

\* p.func(label, role, x, y)
DeclareFunc(label, role) ==
    /\ phase = "declare"
    /\ net' = func(net, label, role)
    /\ UNCHANGED <<vm, phase, marking, call, tx, place_order>>

\* p.arrow(source, target, weight)
DeclareArrow(source, target, weight) ==
    /\ phase = "declare"
    /\ Len(net.arcs) < MaxArcs
    /\ LET r == arrow(net, source, target, weight)
       IN  /\ net' = r.net
           /\ phase' = IF r.panicked THEN "panicked" ELSE phase
    /\ UNCHANGED <<vm, marking, call, tx, place_order>>

\* p.guard(source, target, weight)
DeclareGuard(source, target, weight) ==
    /\ phase = "declare"
    /\ Len(net.arcs) < MaxArcs
    /\ LET r == guard(net, source, target, weight)
       IN  /\ net' = r.net
           /\ phase' = IF r.panicked THEN "panicked" ELSE phase
    /\ UNCHANGED <<vm, marking, call, tx, place_order>>

\* Builder::as_vasm: StateMachine::from_model(self.net)
AsVasm ==
    /\ phase = "declare"
    /\ \E placeIter \in IterationOrders(DOMAIN net.places),
          transIter \in IterationOrders(DOMAIN net.transitions) :
          LET r == from_model(net, placeIter, transIter)
          IN  /\ net' = r.model
              /\ vm' = IF r.panicked THEN None ELSE Some(r.sm)
              /\ phase' = IF r.panicked THEN "panicked" ELSE "ready"
              /\ place_order' = IF r.panicked THEN None ELSE Some(placeIter)
    /\ UNCHANGED <<marking, call, tx>>

\* let state = vm.initial_vector()
InitialVector ==
    /\ phase = "ready"
    /\ tx = None
    /\ marking' = initial_vector(vm[1])
    /\ call' = None
    /\ tx' = None
    /\ UNCHANGED <<net, vm, phase, place_order>>

\* the caller makes a marking of its own, one slot per place
SetState(v) ==
    /\ phase = "ready"
    /\ tx = None
    /\ marking' = v
    /\ call' = None
    /\ tx' = None
    /\ UNCHANGED <<net, vm, phase, place_order>>

\* let res = vm.transform(&state, action, multiple)
Transform(action, multiple) ==
    /\ phase = "ready"
    /\ tx = None
    /\ \E guardIter \in GuardOrders(vm[1], action) :
          LET r == transform_call(vm[1], marking, action, multiple, guardIter)
          IN  /\ vm' = Some(r.self)
              /\ marking' = r.state
              /\ tx' = Some(r.result)
              /\ phase' = IF r.result.panicked THEN "panicked" ELSE phase
    /\ call' = Some([action |-> action, multiple |-> multiple])
    /\ UNCHANGED <<net, place_order>>

\* if res.ok { state = res.output }: the caller adopts the output of an ok
\* firing (while every slot is at most MaxTokens, which keeps the run finite)
Adopt ==
    /\ phase = "ready"
    /\ tx # None
    /\ tx[1].ok
    /\ \A i \in 1..Len(tx[1].output) : tx[1].output[i] <= MaxTokens
    /\ marking' = tx[1].output
    /\ call' = None
    /\ tx' = None
    /\ UNCHANGED <<net, vm, phase, place_order>>

\* the caller drops the Transaction and keeps its marking
Drop ==
    /\ phase = "ready"
    /\ tx # None
    /\ call' = None
    /\ tx' = None
    /\ UNCHANGED <<net, vm, phase, marking, place_order>>

\* the inputs a session draws
CellInitials == IF declared_places = {} THEN {Some(1)} ELSE {None}
CellCapacities == IF declared_places = {} THEN {None, Some(MaxCapacity)} ELSE {None}

\* state vectors that are not as long as the place count: one slot short, and
\* one slot long with the extra slot negative or empty
OffLength(self) ==
    LET n == Len(self.places)
    IN  {vec(0, n) \o <<x>> : x \in {-1, 0}} \cup (IF n > 0 THEN {vec(0, n - 1)} ELSE {})

\* the state vectors a caller makes for a machine: every marking with one slot
\* per place, and some of another length
Markings(self) == [1..Len(self.places) -> Tokens] \cup OffLength(self)

\* an action name that no graph declares
UnknownAction == "nope"

\* the action names a caller passes: the compiled ones and an unknown one
ActionNames(self) == DOMAIN self.transitions \cup {UnknownAction}

Cell ==
    /\ Cardinality(declared_places) < Len(PlaceLabels)
    /\ \E initial \in CellInitials, capacity \in CellCapacities :
          DeclareCell(next_place, initial, capacity)

Func ==
    /\ Cardinality(declared_transitions) < Len(TransitionLabels)
    /\ DeclareFunc(next_transition, Roles[Cardinality(declared_transitions) + 1])

Arrow == \E ends \in ArcEnds, weight \in Weights : DeclareArrow(ends[1], ends[2], weight)

Guard == \E ends \in ArcEnds, weight \in Weights : DeclareGuard(ends[1], ends[2], weight)

CallSetState ==
    /\ phase = "ready"
    /\ \E v \in Markings(vm[1]) : SetState(v)

CallTransform ==
    /\ phase = "ready"
    /\ \E action \in ActionNames(vm[1]), multiple \in Multiples :
          Transform(action, multiple)

Next ==
    \/ \E mt \in ModelTypeStrings : DeclareModelType(mt)
    \/ Cell
    \/ Func
    \/ Arrow
    \/ Guard
    \/ AsVasm
    \/ InitialVector
    \/ CallSetState
    \/ CallTransform
    \/ Adopt
    \/ Drop

Spec == Init /\ [][Next]_vars

----------------------------------------------------------------------------
(* The compiling session: a caller builds a graph through the Builder and    *)
(* PetriNet::add_arc, with inputs a compile may reject, and calls            *)
(* StateMachine::from_model on it, possibly twice.                           *)

\* the type strings a caller declares: the documented ones, other spellings
\* of them and an unknown one
CompileTypeStrings == {"petriNet", "PetriNet", "elementary", "workflow", "WORKFLOW", "bogus"}

\* initial counts of the first cell
CompileInitials == IF declared_places = {} THEN {None, Some(-1), Some(MaxTokens)} ELSE {None, Some(-1)}

\* a label no cell or func declares
UndeclaredLabel == "ghost"

\* the ends of the arcs a caller declares: any two different labels, declared
\* or not
CompileArcEnds ==
    LET labels == declared_places \cup declared_transitions \cup {UndeclaredLabel}
    IN  {e \in labels \X labels : e[1] # e[2]}

\* net.add_arc(ArcParams { source, target, weight: None, consume, produce,
\* inhibit: None, read: None })
AddArc(source, target, consume, produce) ==
    /\ phase = "declare"
    /\ net' = add_arc(net, [source |-> source, target |-> target, weight |-> None,
                            consume |-> consume, produce |-> produce,
                            inhibit |-> None, read |-> None])
    /\ UNCHANGED <<vm, phase, marking, call, tx, place_order>>

\* StateMachine::from_model(&mut net) on a graph that was compiled before and
\* not modified since: net.places iterates in the order it did, the fresh
\* transition map in any order
Recompile ==
    /\ phase = "ready"
    /\ vm # None /\ Len(vm) < MaxCompiles
    /\ place_order # None
    /\ \E transIter \in IterationOrders(DOMAIN net.transitions) :
          LET r == from_model(net, place_order[1], transIter)
          IN  /\ net' = r.model
              /\ vm' = IF r.panicked THEN vm ELSE Append(vm, r.sm)
              /\ phase' = IF r.panicked THEN "panicked" ELSE phase
    /\ UNCHANGED <<marking, call, tx, place_order>>

\* StateMachine::new on the declarations made so far
NewStateMachine ==
    /\ phase = "declare"
    /\ \E placeIter \in IterationOrders(DOMAIN net.places),
          transIter \in IterationOrders(DOMAIN net.transitions),
          netIter \in IterationOrders(DOMAIN net.transitions) :
          LET r == StateMachine_new(net, placeIter, transIter, netIter)
          IN  /\ net' = r.model
              /\ vm' = IF r.panicked THEN None ELSE Some(r.sm)
              /\ phase' = IF r.panicked THEN "panicked" ELSE "ready"
              /\ place_order' = IF r.panicked THEN None ELSE Some(placeIter)
    /\ UNCHANGED <<marking, call, tx>>

\* the transitions and roles of a compiling session
CompileTransitionLabels == <<"t0", "t1">>
CompileRoles == <<"admin", "user">>

CompileFunc ==
    /\ Cardinality(declared_transitions) < Len(CompileTransitionLabels)
    /\ DeclareFunc(CompileTransitionLabels[Cardinality(declared_transitions) + 1],
                   CompileRoles[Cardinality(declared_transitions) + 1])

CompileModelType == \E mt \in CompileTypeStrings : DeclareModelType(mt)

CompileCell ==
    /\ Cardinality(declared_places) < Len(PlaceLabels)
    /\ \E initial \in CompileInitials, capacity \in CellCapacities :
          DeclareCell(next_place, initial, capacity)

CompileArrow ==
    /\ Len(net.arcs) < MaxCompileArcs
    /\ \E ends \in CompileArcEnds, weight \in Weights : DeclareArrow(ends[1], ends[2], weight)

CompileGuard ==
    /\ Len(net.arcs) < MaxCompileArcs
    /\ \E ends \in CompileArcEnds, weight \in Weights : DeclareGuard(ends[1], ends[2], weight)

CompileAddArc ==
    /\ Len(net.arcs) < MaxCompileArcs
    /\ \E ends \in CompileArcEnds, consume \in {Some(TRUE), Some(FALSE)},
          produce \in {Some(TRUE), Some(FALSE)} :
          AddArc(ends[1], ends[2], consume, produce)

NextCompile ==
    \/ CompileModelType
    \/ CompileCell
    \/ CompileFunc
    \/ CompileArrow
    \/ CompileGuard
    \/ CompileAddArc
    \/ AsVasm
    \/ NewStateMachine
    \/ Recompile

SpecCompile == Init /\ [][NextCompile]_vars

----------------------------------------------------------------------------
(* The declaring session: a caller makes cell and func calls with labels of  *)
(* its choice, repeated or not, and compiles.                                *)

\* initial counts of the cells of a declaring session
DeclareInitials == {None, Some(1)}

\* p.cell(label, initial, None, x, y) for any label
AnyCell ==
    \E i \in 1..Len(PlaceLabels), initial \in DeclareInitials :
        DeclareCell(PlaceLabels[i], initial, None)

\* p.func(label, role, x, y) for any label
AnyFunc ==
    \E i \in 1..Len(CompileTransitionLabels) :
        DeclareFunc(CompileTransitionLabels[i], CompileRoles[i])

NextDeclare ==
    \/ AnyCell
    \/ AnyFunc
    \/ AsVasm

SpecDeclare == Init /\ [][NextDeclare]_vars

----------------------------------------------------------------------------
(* The arc session: a caller declares cells and funcs and then arrows and    *)
(* guards with weights of its choice, positive or not.                       *)

\* the weights a caller passes to arrow and guard
AnyWeights == (-1)..MaxWeight

WeighedArrow ==
    /\ Len(net.arcs) < MaxArcs
    /\ \E ends \in ArcEnds, weight \in AnyWeights : DeclareArrow(ends[1], ends[2], weight)

WeighedGuard ==
    /\ Len(net.arcs) < MaxArcs
    /\ \E ends \in ArcEnds, weight \in AnyWeights : DeclareGuard(ends[1], ends[2], weight)

NextArcs ==
    \/ Cell
    \/ Func
    \/ WeighedArrow
    \/ WeighedGuard

SpecArcs == Init /\ [][NextArcs]_vars

----------------------------------------------------------------------------
(* The reentry session: a caller declares a workflow, compiles it, may load  *)
(* the machine back from a serialized form whose transitions are marked      *)
(* allow_reentry, and fires transitions.                                     *)

DeclareWorkflow ==
    /\ net.model_type # "workflow"
    /\ DeclareModelType("workflow")

\* serde: the compiled machine is replaced by one deserialized with
\* allow_reentry set
LoadReentrant ==
    /\ phase = "ready"
    /\ tx = None
    /\ \E k \in DOMAIN vm[1].transitions : ~vm[1].transitions[k].allow_reentry
    /\ vm' = Some(deserialize_reentrant(vm[1]))
    /\ UNCHANGED <<net, phase, marking, call, tx, place_order>>

\* the workflow, once declared as one, is compiled
CompileWorkflow ==
    /\ net.model_type = "workflow"
    /\ AsVasm

\* the caller makes a marking of 0s and 1s, one slot per place
SetWorkflowState ==
    /\ phase = "ready"
    /\ \E v \in [1..Len(vm[1].places) -> 0..MaxCapacity] : SetState(v)

NextReentry ==
    \/ DeclareWorkflow
    \/ Cell
    \/ Func
    \/ Arrow
    \/ Guard
    \/ CompileWorkflow
    \/ LoadReentrant
    \/ SetWorkflowState
    \/ CallTransform
    \/ Drop

SpecReentry == Init /\ [][NextReentry]_vars

----------------------------------------------------------------------------
(* The threading session: a caller declares a PetriNet or Elementary graph   *)
(* of up to two transitions joined to the places by arrows, compiles it, and *)
(* threads a marking through successive transform calls, each taking the     *)
(* output of the one before whether it was ok or not.  call and tx hold the  *)
(* calls made so far and their Transactions, in order.                       *)

\* the longest thread of calls
MaxThread == 2

ThreadTypeStrings == {"petriNet", "elementary"}

ThreadMultiples == (0 - MaxMultiple)..MaxMultiple

\* the markings a thread starts from
ThreadMarkings(self) == [1..Len(self.places) -> 0..MaxTokens]

ThreadModelType == \E mt \in ThreadTypeStrings : DeclareModelType(mt)

ThreadArrow ==
    /\ Len(net.arcs) < MaxArcs
    /\ \E ends \in ArcEnds : DeclareArrow(ends[1], ends[2], 1)

ThreadSetState ==
    /\ phase = "ready"
    /\ \E v \in ThreadMarkings(vm[1]) : SetState(v)

\* the state the next call of the thread is given
ThreadState == IF tx = <<>> THEN marking ELSE tx[Len(tx)].output

\* let res = vm.transform(&state, action, multiple); state = res.output
ThreadFire(action, multiple) ==
    /\ phase = "ready"
    /\ Len(tx) < MaxThread
    /\ Len(marking) = Len(vm[1].places)
    /\ \E guardIter \in GuardOrders(vm[1], action) :
          LET r == transform_call(vm[1], ThreadState, action, multiple, guardIter)
          IN  /\ vm' = Some(r.self)
              /\ tx' = Append(tx, r.result)
              /\ phase' = IF r.result.panicked THEN "panicked" ELSE phase
    /\ call' = Append(call, [action |-> action, multiple |-> multiple])
    /\ UNCHANGED <<net, marking, place_order>>

ThreadCall ==
    /\ phase = "ready"
    /\ \E action \in DOMAIN vm[1].transitions, multiple \in ThreadMultiples :
          ThreadFire(action, multiple)

NextThread ==
    \/ ThreadModelType
    \/ Cell
    \/ CompileFunc
    \/ ThreadArrow
    \/ AsVasm
    \/ ThreadSetState
    \/ ThreadCall
    \/ Drop

SpecThread == Init /\ [][NextThread]_vars

----------------------------------------------------------------------------
(* The shared session: one graph is declared and compiled, and the machine   *)
(* is then used by several callers at once.  Each caller holds a marking of  *)
(* its own; a transform call takes time, so the calls of different callers   *)
(* overlap in every order.  marking, call and tx hold one entry per caller.  *)

Callers == {"c1", "c2"}

\* the arcs of the shared graph
MaxSharedArcs == 1

\* the multipliers the callers pass
SharedMultiples == {-1, 1}

InitShared ==
    /\ net = PetriNet_new
    /\ vm = None
    /\ phase = "declare"
    /\ marking = [c \in Callers |-> <<>>]
    /\ call = [c \in Callers |-> None]
    /\ tx = [c \in Callers |-> None]
    /\ place_order = None

SharedArrow ==
    /\ Len(net.arcs) < MaxSharedArcs
    /\ \E ends \in ArcEnds : DeclareArrow(ends[1], ends[2], 1)

SharedGuard ==
    /\ Len(net.arcs) < MaxSharedArcs
    /\ \E ends \in ArcEnds : DeclareGuard(ends[1], ends[2], 1)

\* caller c: let state = vm.initial_vector()
CallerInitialVector(c) ==
    /\ phase = "ready"
    /\ call[c] = None
    /\ marking' = [marking EXCEPT ![c] = initial_vector(vm[1])]
    /\ UNCHANGED <<net, vm, phase, call, tx, place_order>>

\* caller c: let state = vm.empty_vector()
CallerEmptyVector(c) ==
    /\ phase = "ready"
    /\ call[c] = None
    /\ marking' = [marking EXCEPT ![c] = empty_vector(vm[1])]
    /\ UNCHANGED <<net, vm, phase, call, tx, place_order>>

\* caller c enters vm.transform(&state, action, multiple) with its marking
CallerEnter(c, action, multiple) ==
    /\ phase = "ready"
    /\ call[c] = None
    /\ Len(marking[c]) = Len(vm[1].places)
    /\ call' = [call EXCEPT ![c] = Some([action |-> action, multiple |-> multiple])]
    /\ UNCHANGED <<net, vm, phase, marking, tx, place_order>>

\* the call of caller c returns its Transaction
CallerReturn(c) ==
    /\ phase = "ready"
    /\ call[c] # None /\ tx[c] = None
    /\ \E guardIter \in GuardOrders(vm[1], call[c][1].action) :
          LET r == transform_call(vm[1], marking[c], call[c][1].action,
                                  call[c][1].multiple, guardIter)
          IN  /\ vm' = Some(r.self)
              /\ marking' = [marking EXCEPT ![c] = r.state]
              /\ tx' = [tx EXCEPT ![c] = Some(r.result)]
    /\ UNCHANGED <<net, phase, call, place_order>>

\* caller c: if res.ok { state = res.output } (while every slot is at most
\* MaxTokens, which keeps the run finite)
CallerAdopt(c) ==
    /\ phase = "ready"
    /\ tx[c] # None
    /\ tx[c][1].ok
    /\ \A i \in 1..Len(tx[c][1].output) : tx[c][1].output[i] <= MaxTokens
    /\ marking' = [marking EXCEPT ![c] = tx[c][1].output]
    /\ call' = [call EXCEPT ![c] = None]
    /\ tx' = [tx EXCEPT ![c] = None]
    /\ UNCHANGED <<net, vm, phase, place_order>>

\* caller c drops its Transaction and keeps its marking
CallerDrop(c) ==
    /\ phase = "ready"
    /\ tx[c] # None
    /\ call' = [call EXCEPT ![c] = None]
    /\ tx' = [tx EXCEPT ![c] = None]
    /\ UNCHANGED <<net, vm, phase, marking, place_order>>

CallerCalls(c) ==
    /\ phase = "ready"
    /\ \E action \in DOMAIN vm[1].transitions, multiple \in SharedMultiples :
          CallerEnter(c, action, multiple)

NextShared ==
    \/ \E mt \in ModelTypeStrings : DeclareModelType(mt)
    \/ Cell
    \/ Func
    \/ SharedArrow
    \/ SharedGuard
    \/ AsVasm
    \/ \E c \in Callers : CallerInitialVector(c)
    \/ \E c \in Callers : CallerEmptyVector(c)
    \/ \E c \in Callers : CallerCalls(c)
    \/ \E c \in Callers : CallerReturn(c)
    \/ \E c \in Callers : CallerAdopt(c)
    \/ \E c \in Callers : CallerDrop(c)

SpecShared == InitShared /\ [][NextShared]_vars

----------------------------------------------------------------------------
(* Vocabulary of the properties. *)

\* the caller holds the Transaction of a transform call on its marking
Fired == phase = "ready" /\ tx # None /\ ~tx[1].panicked

machine == vm[1]
res == tx[1]
fired_action == call[1].action
fired_multiple == call[1].multiple
fired_transition == machine.transitions[fired_action]

\* the slot value state[i] + delta[i] * multiplier of the call, over the integers
Computed(i) == marking[i] + get_or_zero(fired_transition.delta, i) * fired_multiple

Slots == 1..Len(marking)

\* a marking within the bounds of a machine
InBounds(self, s) ==
    /\ Len(s) = Len(self.capacity)
    /\ \A i \in 1..Len(s) : s[i] >= 0 /\ (self.capacity[i] > 0 => s[i] <= self.capacity[i])

ActiveCount(s) == Cardinality({i \in 1..Len(s) : s[i] > 0})

\* the step of a transform call, and of a caller adopting its output
TransformStep == tx = None /\ tx' # None
AdoptStep == tx # None /\ tx' = None /\ tx[1].ok /\ marking' = tx[1].output

----------------------------------------------------------------------------
(* The claims. *)

\* C1: for a PetriNet machine and a state as long as the place count, every
\* slot of the returned output is state[i] + delta[i] * multiplier, whether or
\* not the Transaction is ok.
C1_VectorAddCorrect ==
    (Fired /\ machine.model_type = "PetriNet" /\ Len(marking) = Len(machine.places))
        => /\ Len(res.output) = Len(marking)
           /\ \A i \in Slots : res.output[i] = Computed(i)

\* C1 witness: a failed PetriNet firing with multiplier 2 whose output differs
\* from the state.
C1_Witness ==
    /\ Fired
    /\ machine.model_type = "PetriNet"
    /\ Len(marking) = Len(machine.places)
    /\ fired_multiple = 2
    /\ ~res.ok
    /\ res.output # marking

\* C2: a transform call changes neither the caller's state vector nor the
\* StateMachine (nor the graph): the result comes back in the Transaction.
C2_TransformPure ==
    [][TransformStep => (marking' = marking /\ vm' = vm /\ net' = net)]_vars

\* C2 witness: a Transaction whose output differs from the state it was
\* computed from, which the caller still holds.
C2_Witness ==
    /\ Fired
    /\ res.ok
    /\ res.output # marking
    /\ \A i \in Slots : res.output[i] = Computed(i)

\* C3: for a PetriNet machine, ok is true exactly when underflow, overflow and
\* inhibited are all false, and role is the role the graph gives the fired
\* transition.
C3_PetriNetOk ==
    (Fired /\ machine.model_type = "PetriNet")
        => /\ res.ok <=> (~res.underflow /\ ~res.overflow /\ ~res.inhibited)
           /\ res.role = unwrap_or(net.transitions[fired_action].role, "default")

\* C3 witness: a PetriNet firing within its bounds that fails only because it
\* is inhibited.
C3_Witness ==
    /\ Fired
    /\ machine.model_type = "PetriNet"
    /\ res.inhibited /\ ~res.underflow /\ ~res.overflow /\ ~res.ok
    /\ res.role = "admin"

\* C4 as stated: in any transform call, whatever the model type, a negative
\* computed slot gives underflow == true and ok == false.
C4_Original ==
    (Fired /\ \E i \in Slots : Computed(i) < 0)
        => (res.underflow /\ ~res.ok)

\* C4 amended: a negative computed slot gives underflow == true for every
\* model type, and ok == false for PetriNet and Elementary machines (a
\* Workflow machine does not gate ok on underflow).
C4_Underflow ==
    (Fired /\ \E i \in Slots : Computed(i) < 0)
        => /\ res.underflow
           /\ machine.model_type # "Workflow" => ~res.ok

\* C4 witness: an Elementary firing with a negative computed slot.
C4_Witness ==
    /\ Fired
    /\ machine.model_type = "Elementary"
    /\ \E i \in Slots : Computed(i) < 0
    /\ res.underflow /\ ~res.ok

\* C5 as stated: in any transform call, whatever the model type, a computed
\* slot above a positive capacity gives overflow == true and ok == false.
C5_Original ==
    (Fired /\ Len(marking) = Len(machine.capacity)
           /\ \E i \in Slots : machine.capacity[i] > 0 /\ Computed(i) > machine.capacity[i])
        => (res.overflow /\ ~res.ok)

\* C5 amended: a computed slot above a positive capacity gives overflow == true
\* for every model type, and ok == false for PetriNet and Elementary machines
\* (a Workflow machine does not gate ok on overflow).
C5_Overflow ==
    (Fired /\ Len(marking) = Len(machine.capacity)
           /\ \E i \in Slots : machine.capacity[i] > 0 /\ Computed(i) > machine.capacity[i])
        => /\ res.overflow
           /\ machine.model_type # "Workflow" => ~res.ok

\* C5 witness: a PetriNet firing that takes a bounded place above its capacity.
C5_Witness ==
    /\ Fired
    /\ machine.model_type = "PetriNet"
    /\ Len(marking) = Len(machine.capacity)
    /\ \E i \in Slots : machine.capacity[i] > 0 /\ Computed(i) > machine.capacity[i]
    /\ res.overflow /\ ~res.ok

\* the guards of the fired transition, as compiled: a guard of the given
\* kind that monitors slot p with weight w
fired_guards == fired_transition.guards

HasGuard(read, p, w) ==
    \E k \in DOMAIN fired_guards :
        /\ fired_guards[k].read = read
        /\ fired_guards[k].delta[p] = 0 - w

GuardCases == Slots \X Weights

OnlyGuard == Cardinality(DOMAIN fired_guards) = 1

\* a flow arc of the graph joins the fired transition and the place of slot p
FlowArcOn(p) ==
    \E i \in 1..Len(net.arcs) :
        /\ ~unwrap_or(net.arcs[i].inhibit, FALSE)
        /\ {net.arcs[i].source, net.arcs[i].target} = {fired_action, machine.places[p]}

\* C6 as stated: in any transform call, a transition with a non-read guard on
\* place p with weight w is inhibited whenever state[p] >= w and not inhibited
\* whenever state[p] < w.
C6_Original ==
    (Fired /\ Len(marking) = Len(machine.places))
        => \A c \in GuardCases :
              HasGuard(FALSE, c[1], c[2])
                  => /\ marking[c[1]] >= c[2] => res.inhibited
                     /\ marking[c[1]] < c[2] => ~res.inhibited

\* C6 amended: in a transform call with multiplier 1 on an in-bounds state, a
\* transition with a non-read guard on place p with weight w is inhibited
\* whenever state[p] >= w, and is not inhibited whenever state[p] < w and it has
\* no other guard; whatever its own delta does to the bounds.
C6_GuardBlocking ==
    (Fired /\ fired_multiple = 1 /\ InBounds(machine, marking))
        => \A c \in GuardCases :
              HasGuard(FALSE, c[1], c[2])
                  => /\ marking[c[1]] >= c[2] => res.inhibited
                     /\ (marking[c[1]] < c[2] /\ OnlyGuard) => ~res.inhibited

\* C6 witness: an inhibitor guard blocks at its threshold while the
\* transition's own delta underflows.
C6_Witness ==
    /\ Fired /\ fired_multiple = 1 /\ InBounds(machine, marking)
    /\ machine.model_type = "PetriNet"
    /\ \E c \in GuardCases :
          HasGuard(FALSE, c[1], c[2]) /\ marking[c[1]] >= c[2]
    /\ res.inhibited /\ res.underflow

\* C6 witness of the other half: below the threshold the transition fires.
C6_WitnessBelow ==
    /\ Fired /\ fired_multiple = 1 /\ InBounds(machine, marking)
    /\ machine.model_type = "PetriNet"
    /\ \E c \in GuardCases :
          HasGuard(FALSE, c[1], c[2]) /\ marking[c[1]] < c[2]
    /\ ~res.inhibited /\ res.ok

\* C7 as stated: in any transform call, a transition with a read guard on
\* place p with weight w is inhibited whenever state[p] < w; once p holds w
\* tokens the guard no longer inhibits; the guard consumes nothing.
C7_Original ==
    (Fired /\ Len(marking) = Len(machine.places))
        => \A c \in GuardCases :
              HasGuard(TRUE, c[1], c[2])
                  => /\ marking[c[1]] < c[2] => res.inhibited
                     /\ (marking[c[1]] >= c[2] /\ OnlyGuard) => ~res.inhibited
                     /\ ~FlowArcOn(c[1]) => fired_transition.delta[c[1]] = 0

\* C7 amended: a transition with a read guard on place p with weight w is
\* inhibited whenever state[p] < w in a call with a multiplier of at least 1;
\* with multiplier 1 and an in-bounds state the guard no longer inhibits once p
\* holds w tokens; and the guard arc adds nothing to the delta, so a PetriNet
\* or Elementary firing leaves the tested place as it was unless a flow arc
\* joins it to the transition.
C7_GuardRead ==
    (Fired /\ Len(marking) = Len(machine.places))
        => \A c \in GuardCases :
              HasGuard(TRUE, c[1], c[2])
                  => /\ (fired_multiple >= 1 /\ marking[c[1]] < c[2]) => res.inhibited
                     /\ (fired_multiple = 1 /\ InBounds(machine, marking)
                           /\ marking[c[1]] >= c[2] /\ OnlyGuard) => ~res.inhibited
                     /\ ~FlowArcOn(c[1])
                           => /\ fired_transition.delta[c[1]] = 0
                              /\ machine.model_type # "Workflow"
                                    => res.output[c[1]] = marking[c[1]]

\* C7 witness: a read guard at its threshold lets the transition fire, and the
\* tested place keeps its tokens while another place changes.
C7_Witness ==
    /\ Fired /\ fired_multiple = 1 /\ InBounds(machine, marking)
    /\ machine.model_type = "PetriNet"
    /\ \E c \in GuardCases :
          /\ HasGuard(TRUE, c[1], c[2])
          /\ marking[c[1]] >= c[2]
          /\ res.output[c[1]] = marking[c[1]]
    /\ res.ok /\ res.output # marking

\* C8: for Elementary and Workflow machines an ok Transaction has exactly one
\* positive slot in its output, so a marking adopted from an ok firing has
\* exactly one active place.
C8_SingleActive ==
    /\ []((Fired /\ machine.model_type \in {"Elementary", "Workflow"} /\ res.ok)
            => ActiveCount(res.output) = 1)
    /\ [][(AdoptStep /\ machine.model_type \in {"Elementary", "Workflow"})
            => ActiveCount(marking') = 1]_vars

\* C8 witness: an ok Workflow firing that moves the one active place.
C8_Witness ==
    /\ Fired
    /\ machine.model_type = "Workflow"
    /\ InBounds(machine, marking)
    /\ fired_multiple = 1
    /\ res.ok
    /\ ActiveCount(res.output) = 1
    /\ ActiveCount(marking) = 1
    /\ res.output # marking

\* C9: for a PetriNet machine a caller that adopts only ok outputs stays within
\* the bounds it started in; a firing that would take a bounded place above its
\* capacity is rejected with overflow, one that would take a place below zero
\* with underflow.
C9_PetriNetBounded ==
    /\ [][(AdoptStep /\ machine.model_type = "PetriNet" /\ InBounds(machine, marking))
            => InBounds(machine, marking')]_vars
    /\ []((Fired /\ machine.model_type = "PetriNet" /\ InBounds(machine, marking))
            => /\ (\E i \in Slots : machine.capacity[i] > 0
                                     /\ Computed(i) > machine.capacity[i])
                     => (~res.ok /\ res.overflow)
               /\ (\E i \in Slots : Computed(i) < 0)
                     => (~res.ok /\ res.underflow))

\* C9 witness: from an in-bounds marking, a PetriNet firing that would exceed a
\* capacity is rejected with overflow.
C9_Witness ==
    /\ Fired
    /\ machine.model_type = "PetriNet"
    /\ InBounds(machine, marking)
    /\ fired_multiple = 1
    /\ \E i \in Slots : machine.capacity[i] > 0 /\ marking[i] = machine.capacity[i]
                         /\ Computed(i) > machine.capacity[i]
    /\ ~res.ok /\ res.overflow /\ ~res.underflow /\ ~res.inhibited

\* C10: for a Workflow machine and a transition not marked allow_reentry the
\* output is the clamped vector (0 and -1 become 0, any other value 1), ok is
\* (exactly one slot of it is 1) and not inhibited, and overflow and underflow
\* are those of the un-clamped computation, which do not gate ok.
C10_WorkflowFire ==
    (Fired /\ machine.model_type = "Workflow" /\ ~fired_transition.allow_reentry
           /\ Len(marking) = Len(machine.capacity))
        => /\ Len(res.output) = Len(marking)
           /\ \A i \in Slots :
                 res.output[i] = IF Computed(i) \in {0, -1} THEN 0 ELSE 1
           /\ res.ok <=> (Cardinality({i \in Slots : res.output[i] = 1}) = 1
                          /\ ~res.inhibited)
           /\ res.underflow <=> \E i \in Slots : Computed(i) < 0
           /\ res.overflow <=> \E i \in Slots : /\ Computed(i) >= 0
                                                  /\ machine.capacity[i] > 0
                                                  /\ Computed(i) > machine.capacity[i]

\* C10 witness: an in-bounds Workflow firing with multiplier 1 that is ok
\* although an empty input place underflows to -1.
C10_Witness ==
    /\ Fired
    /\ machine.model_type = "Workflow"
    /\ InBounds(machine, marking)
    /\ fired_multiple = 1
    /\ \A i \in Slots : Computed(i) >= -1
    /\ res.ok /\ res.underflow /\ ~res.overflow

\* the fired transition moves one token from slot a to slot b and touches no
\* other slot
MovesOne(a, b) ==
    /\ a # b
    /\ Len(fired_transition.delta) = Len(marking)
    /\ fired_transition.delta[a] = -1
    /\ fired_transition.delta[b] = 1
    /\ \A i \in Slots \ {a, b} : fired_transition.delta[i] = 0

C12_ElementaryFire ==
    (Fired /\ machine.model_type = "Elementary")
        => /\ Len(res.output) = Len(marking)
           /\ \A i \in Slots : res.output[i] = Computed(i)
           /\ res.ok <=> /\ ~res.underflow /\ ~res.overflow
                          /\ ActiveCount(res.output) = 1
                          /\ ~res.inhibited

\* C12 witness: an Elementary firing within its bounds and not inhibited that
\* fails only because it leaves two places active.
C12_Witness ==
    /\ Fired /\ machine.model_type = "Elementary" /\ fired_multiple = 1
    /\ InBounds(machine, marking)
    /\ ~res.underflow /\ ~res.overflow /\ ~res.inhibited
    /\ ActiveCount(res.output) = 2
    /\ res.output # marking
    /\ ~res.ok

\* the caller holds what a transform call came back with, a Transaction or a
\* panic
Called == vm # None /\ call # None /\ tx # None

\* C14: a transform call whose action name is not in the compiled transition
\* set returns no Transaction: it panics, whatever the state and multiplier.
C14_UnknownAction ==
    (Called /\ fired_action \notin DOMAIN machine.transitions)
        => (res.panicked /\ phase = "panicked")

\* C14 witness: an unknown action on a machine that has a transition, from its
\* initial marking with multiplier 1.
C14_Witness ==
    /\ Called
    /\ fired_action = UnknownAction
    /\ DOMAIN machine.transitions # {}
    /\ marking = initial_vector(machine) /\ Len(marking) > 0
    /\ fired_multiple = 1
    /\ res.panicked /\ phase = "panicked"

\* C15 as stated: for an action of the compiled transition set a transform
\* call returns a Transaction and never fails, for a state vector of any
\* length and contents and any multiplier.
C15_Original ==
    (Called /\ fired_action \in DOMAIN machine.transitions) => ~res.panicked

\* C15, the failing call: a known action on a state vector one slot longer
\* than the place count, whose extra slot is not negative, panics.
C15_Witness ==
    /\ Called
    /\ fired_action \in DOMAIN machine.transitions
    /\ machine.model_type = "PetriNet"
    /\ Len(machine.places) = 1
    /\ fired_multiple = 1
    /\ Len(marking) = Len(machine.places) + 1
    /\ marking[Len(marking)] >= 0
    /\ res.panicked /\ phase = "panicked"

----------------------------------------------------------------------------
(* Vocabulary of the compile properties. *)

\* a compile was attempted and returned no machine
CompileFailed == phase = "panicked" /\ vm = None /\ call = None

\* the graph's type string is one from_model accepts
TypeAccepted == to_lowercase(net.model_type) \in {"petrinet", "elementary", "workflow"}

\* no place of the graph has a negative initial count
NoNegativeInitial == \A k \in DOMAIN net.places : unwrap_or(net.places[k].initial, 0) >= 0

\* the arc joins a declared place and a declared transition
Joins(arc) ==
    \/ arc.source \in declared_places /\ arc.target \in declared_transitions
    \/ arc.source \in declared_transitions /\ arc.target \in declared_places

\* two machines agree on initial, capacity, places and on the delta and the
\* guards of every transition
SameCompiled(a, b) ==
    /\ a.initial = b.initial
    /\ a.capacity = b.capacity
    /\ a.places = b.places
    /\ DOMAIN a.transitions = DOMAIN b.transitions
    /\ \A k \in DOMAIN a.transitions :
          /\ a.transitions[k].delta = b.transitions[k].delta
          /\ a.transitions[k].guards = b.transitions[k].guards

\* C13: compiling the same graph twice, with no builder call in between, gives
\* machines with identical initial, capacity, places and per-transition delta
\* and guards (and the second compile succeeds as the first did).
C13_IdempotentCompile ==
    /\ phase = "panicked" => vm = None
    /\ \A i, j \in 1..Len(vm) : SameCompiled(vm[i], vm[j])

\* C13 witness: a graph with two places and an arc whose flags the first
\* compile inferred, compiled twice.
C13_Witness ==
    /\ Len(vm) = 2
    /\ Len(vm[2].places) = 2
    /\ Len(net.arcs) = 1
    /\ \E k \in DOMAIN vm[2].transitions, i \in 1..2 : vm[2].transitions[k].delta[i] < 0

\* C16: compiling a graph with a negative initial count fails and gives no
\* machine, so every compiled machine has initial[i] >= 0.
C16_InitialNonNegative ==
    vm # None
        => /\ NoNegativeInitial
           /\ \A j \in 1..Len(vm) : \A i \in 1..Len(vm[j].initial) : vm[j].initial[i] >= 0

\* C16 witness: a compile that failed on a graph whose only defect is a
\* negative initial count.
C16_Witness ==
    /\ CompileFailed
    /\ TypeAccepted
    /\ net.arcs = <<>>
    /\ ~NoNegativeInitial

\* C17: compiling a graph with an arc that names an undeclared place or
\* transition, or that joins two places or two transitions, fails and gives no
\* machine.
C17_ArcEnds ==
    vm # None => \A i \in 1..Len(net.arcs) : Joins(net.arcs[i])

\* C17 witness: a compile that failed on a graph whose only defect is an arc
\* from one place to another.
C17_Witness ==
    /\ CompileFailed
    /\ TypeAccepted
    /\ NoNegativeInitial
    /\ Len(net.arcs) = 1
    /\ net.arcs[1].source \in declared_places
    /\ net.arcs[1].target \in declared_places

\* the arc is a flow arc: inhibit is unset or false
IsFlowArc(arc) == ~unwrap_or(arc.inhibit, FALSE)

\* C18 as stated: compiling a graph with a flow arc for which both or neither
\* of consume and produce is true fails and gives no machine.
C18_Original ==
    vm # None
        => \A i \in 1..Len(net.arcs) :
              IsFlowArc(net.arcs[i])
                  => (unwrap_or(net.arcs[i].consume, FALSE)
                        # unwrap_or(net.arcs[i].produce, FALSE))

\* C18, the failing compile: a flow arc from a place to a transition with
\* neither consume nor produce set compiles, and adds its weight to the place.
C18_Witness ==
    /\ vm # None
    /\ Len(net.arcs) = 1
    /\ IsFlowArc(net.arcs[1])
    /\ net.arcs[1].consume = Some(FALSE) /\ net.arcs[1].produce = Some(FALSE)
    /\ net.arcs[1].source = "p0" /\ net.arcs[1].target = "t0"
    /\ vm[1].transitions["t0"].delta[1] = 1

\* C19 as stated: a graph whose type string is not one of petriNet,
\* elementary, workflow does not compile.
C19_Original ==
    vm # None => net.model_type \in {"petriNet", "elementary", "workflow"}

\* C19 amended: the type string is matched without regard to case; a string
\* that is not a spelling of petrinet, elementary or workflow does not compile,
\* and the spellings select PetriNet, Elementary and Workflow.
C19_ModelType ==
    vm # None
        => /\ TypeAccepted
           /\ \A j \in 1..Len(vm) :
                 vm[j].model_type =
                     CASE to_lowercase(net.model_type) = "petrinet"   -> "PetriNet"
                       [] to_lowercase(net.model_type) = "elementary" -> "Elementary"
                       [] to_lowercase(net.model_type) = "workflow"   -> "Workflow"

\* C19 witness: a compile that failed on a graph whose only defect is its
\* type string.
C19_Witness ==
    /\ CompileFailed
    /\ ~TypeAccepted
    /\ NoNegativeInitial
    /\ declared_places # {}
    /\ net.arcs = <<>>

\* C20: in every compiled machine initial, capacity and places are as long as
\* the graph has places, and so is every delta and every guard delta;
\* initial_vector() is initial and empty_vector() is that many zeros.
C20_VectorLengths ==
    \A j \in 1..Len(vm) :
        LET sm == vm[j]
            n  == Cardinality(declared_places)
        IN  /\ Len(sm.initial) = n /\ Len(sm.capacity) = n /\ Len(sm.places) = n
            /\ \A k \in DOMAIN sm.transitions :
                  /\ Len(sm.transitions[k].delta) = n
                  /\ \A g \in DOMAIN sm.transitions[k].guards :
                        Len(sm.transitions[k].guards[g].delta) = n
            /\ initial_vector(sm) = sm.initial
            /\ Len(empty_vector(sm)) = n
            /\ \A i \in 1..n : empty_vector(sm)[i] = 0

\* C20 witness: a machine compiled from two places and a transition with a
\* flow arc and a guard, whose initial vector is not empty.
C20_Witness ==
    /\ vm # None
    /\ Cardinality(declared_places) = 2
    /\ initial_vector(vm[1]) # empty_vector(vm[1])
    /\ \E k \in DOMAIN vm[1].transitions :
          /\ DOMAIN vm[1].transitions[k].guards # {}
          /\ \E i \in 1..2 : vm[1].transitions[k].delta[i] # 0

----------------------------------------------------------------------------
(* Arcs, deltas and guards. *)

\* what a flow arc between transition t and place p moves: + weight for a
\* produce arc t -> p, - weight for a consume arc p -> t
FlowOf(arc, t, p) ==
    IF ~IsFlowArc(arc) THEN 0
    ELSE IF unwrap_or(arc.produce, FALSE) /\ arc.source = t /\ arc.target = p
    THEN unwrap_or(arc.weight, 1)
    ELSE IF unwrap_or(arc.consume, FALSE) /\ arc.source = p /\ arc.target = t
    THEN 0 - unwrap_or(arc.weight, 1)
    ELSE 0

\* the sum of FlowOf over the arcs from the i-th on
RECURSIVE FlowSum(_, _, _, _)
FlowSum(arcs, t, p, i) ==
    IF i > Len(arcs) THEN 0
    ELSE FlowOf(arcs[i], t, p) + FlowSum(arcs, t, p, i + 1)

\* C22 as stated: every slot of every transition's delta is the sum of the
\* weights of the produce arcs into the place minus the sum of the weights of
\* the consume arcs out of it, so arcs on the same pair accumulate.
C22_Original ==
    vm # None
        => \A t \in DOMAIN vm[1].transitions : \A i \in 1..Len(vm[1].places) :
              vm[1].transitions[t].delta[i] = FlowSum(net.arcs, t, vm[1].places[i], 1)

\* C22, the failing compile: a consume arc and then a produce arc of weight 1
\* on the same pair leave the delta at +1, not 0.
C22_Witness ==
    /\ vm # None
    /\ Len(net.arcs) = 2
    /\ net.arcs[1].source = "p0" /\ net.arcs[1].target = "t0"
    /\ net.arcs[2].source = "t0" /\ net.arcs[2].target = "p0"
    /\ IsFlowArc(net.arcs[1]) /\ IsFlowArc(net.arcs[2])
    /\ net.arcs[1].weight = Some(1) /\ net.arcs[2].weight = Some(1)
    /\ FlowSum(net.arcs, "t0", "p0", 1) = 0
    /\ vm[1].transitions["t0"].delta[1] = 1

\* the transition that owns a guard arc and the place it monitors
GuardOwner(arc) == IF unwrap_or(arc.read, FALSE) THEN arc.source ELSE arc.target
GuardPlace(arc) == IF unwrap_or(arc.read, FALSE) THEN arc.target ELSE arc.source

\* the one-hot delta of - weight at the place of offset o, over n places
OneHot(n, o, w) == [i \in 1..n |-> IF i = o + 1 THEN 0 - w ELSE 0]

\* the guard arc has its guard in its owner's compiled guard set
GuardCompiled(sm, arc) ==
    \E k \in DOMAIN sm.transitions[GuardOwner(arc)].guards :
        LET g == sm.transitions[GuardOwner(arc)].guards[k]
        IN  /\ g.read = unwrap_or(arc.read, FALSE)
            /\ g.delta = OneHot(Len(sm.places), net.places[GuardPlace(arc)].offset,
                                unwrap_or(arc.weight, 1))

\* C23 as stated: every guard arc of the graph has its guard in the owning
\* transition's guard set, and a fired transition is inhibited whenever the
\* place of one of its inhibitor arcs meets its threshold.
C23_Original ==
    /\ vm # None
          => \A i \in 1..Len(net.arcs) :
                ~IsFlowArc(net.arcs[i]) => GuardCompiled(vm[1], net.arcs[i])
    /\ (Fired /\ fired_multiple = 1 /\ InBounds(machine, marking))
          => \A i \in 1..Len(net.arcs) :
                (/\ ~IsFlowArc(net.arcs[i])
                 /\ ~unwrap_or(net.arcs[i].read, FALSE)
                 /\ net.arcs[i].target = fired_action
                 /\ marking[net.places[net.arcs[i].source].offset + 1]
                        >= unwrap_or(net.arcs[i].weight, 1))
                    => res.inhibited

\* C23, the failing call: a transition with inhibitor arcs from two places,
\* fired while the first place meets its threshold, is not inhibited.
C23_Witness ==
    /\ Fired /\ fired_multiple = 1 /\ InBounds(machine, marking)
    /\ machine.model_type = "PetriNet"
    /\ Len(net.arcs) = 2
    /\ net.arcs[1].source = "p0" /\ net.arcs[1].target = "t0"
    /\ net.arcs[2].source = "p1" /\ net.arcs[2].target = "t0"
    /\ ~IsFlowArc(net.arcs[1]) /\ ~IsFlowArc(net.arcs[2])
    /\ marking[1] >= net.arcs[1].weight[1]
    /\ marking[2] < net.arcs[2].weight[1]
    /\ ~res.inhibited /\ res.ok

\* the guards of the fired transition, as a set
FiredGuardSet == {fired_guards[k] : k \in DOMAIN fired_guards}

\* vector_add(capacity, state, guard.delta, multiplier).ok for a guard of the call
ThresholdMet(g) == vector_add(machine.capacity, marking, g.delta, fired_multiple).ok

\* the place a guard monitors and the weight it compares with
GuardSlot(g) == CHOOSE i \in 1..Len(g.delta) : g.delta[i] # 0
GuardWeight(g) == 0 - g.delta[GuardSlot(g)]

\* C25: a fired transition is inhibited exactly when one of its guards
\* inhibits, a read guard when its threshold is not met and any other guard
\* when it is met, the threshold being vector_add(capacity, state,
\* guard.delta, multiplier).ok; for a state within bounds and a multiplier
\* of at least 1 the threshold is met exactly when the monitored place
\* holds at least weight * multiplier tokens.
C25_GuardMultiplier ==
    (Fired /\ Len(marking) = Len(machine.capacity))
        => /\ res.inhibited
                <=> \E g \in FiredGuardSet :
                        IF g.read THEN ~ThresholdMet(g) ELSE ThresholdMet(g)
           /\ (InBounds(machine, marking) /\ fired_multiple >= 1)
                => \A g \in FiredGuardSet :
                      ThresholdMet(g)
                          <=> marking[GuardSlot(g)] >= GuardWeight(g) * fired_multiple

\* C25, reached: a guard of weight 1 fired with multiplier 2 on a place
\* holding one token: the threshold 2 is not met, so the inhibitor guard
\* lets the transition through.
C25_Witness ==
    /\ Fired /\ InBounds(machine, marking) /\ fired_multiple = 2
    /\ \E g \in FiredGuardSet :
          /\ ~g.read /\ GuardWeight(g) = 1
          /\ marking[GuardSlot(g)] = 1
    /\ Cardinality(FiredGuardSet) = 1
    /\ ~res.inhibited

\* C29: overflow is reported only when some slot has a capacity above 0 and
\* a computed value above that capacity; a slot of capacity 0 is unbounded.
C29_ZeroCapacityUnbounded ==
    (Fired /\ Len(marking) = Len(machine.capacity) /\ res.overflow)
        => \E i \in Slots : machine.capacity[i] > 0 /\ Computed(i) > machine.capacity[i]

\* C29, reached: a slot of capacity 0 computed to more than MaxTokens
\* without overflow.
C29_Witness ==
    /\ Fired /\ Len(marking) = Len(machine.capacity)
    /\ machine.model_type = "PetriNet"
    /\ \E i \in Slots : machine.capacity[i] = 0 /\ Computed(i) > MaxTokens
    /\ ~res.overflow /\ res.ok

\* the arcs of the graph that touch the fired transition
FiredArcs == {i \in 1..Len(net.arcs) :
                 fired_action \in {net.arcs[i].source, net.arcs[i].target}}

\* C30: in a PetriNet, firing a transition whose only arcs are guard arcs
\* returns an output equal to the input state, for every state and
\* multiplier, inhibited or not.
C30_GuardsMoveNothing ==
    (/\ Fired /\ machine.model_type = "PetriNet"
     /\ FiredArcs # {}
     /\ \A i \in FiredArcs : ~IsFlowArc(net.arcs[i]))
        => res.output = marking

\* C30, reached: a transition with one guard arc, fired uninhibited with a
\* multiplier of 2 on a marked place.
C30_Witness ==
    /\ Fired /\ machine.model_type = "PetriNet"
    /\ FiredArcs # {} /\ \A i \in FiredArcs : ~IsFlowArc(net.arcs[i])
    /\ fired_multiple = 2
    /\ \E i \in Slots : marking[i] > 0 /\ fired_guards # <<>>
    /\ ~res.inhibited /\ res.ok /\ res.output = marking

----------------------------------------------------------------------------
(* Compiled vectors, action lists and inferred arc attributes. *)

CompileStep == phase = "declare" /\ phase' # "declare" /\ TypeAccepted

----------------------------------------------------------------------------
(* Offsets of declared places and transitions, and shared machines. *)

\* the offsets of a map of places or transitions are 0..n-1, each used once
DenseOffsets(map) ==
    /\ {map[k].offset : k \in DOMAIN map} = 0..(Cardinality(DOMAIN map) - 1)
    /\ \A j, k \in DOMAIN map : map[j].offset = map[k].offset => j = k

\* C26 as stated: after any sequence of cell and func calls, repeated labels
\* included, the place offsets are exactly 0..n-1 and the transition offsets
\* exactly 0..k-1, each used once.
C26_Original == DenseOffsets(net.places) /\ DenseOffsets(net.transitions)

\* C26, the failing sequence: the same label declared twice leaves one place
\* whose offset is 1.
C26_Witness ==
    /\ phase = "declare"
    /\ DOMAIN net.places = {"p0"}
    /\ net.places["p0"].offset = 1

\* the call of caller c returns in this step
Returns(c) == tx[c] = None /\ tx'[c] # None

\* C21: a compiled machine is never changed by the initial_vector,
\* empty_vector and transform calls of its callers; a transform call leaves
\* the state it was given, and all that the other callers hold, as they were;
\* and however the calls of the callers overlap, the Transaction a caller
\* gets is the one transform gives for its own marking on the compiled
\* machine.
C21_SharedMachine ==
    /\ [][phase = "ready" => (vm' = vm /\ net' = net)]_vars
    /\ [][phase = "ready"
            => \A c \in Callers :
                  Returns(c)
                      => /\ marking'[c] = marking[c]
                         /\ \A d \in Callers \ {c} :
                               marking'[d] = marking[d] /\ tx'[d] = tx[d]]_vars
    /\ [](phase = "ready"
            => \A c \in Callers :
                  tx[c] # None
                      => \E guardIter \in GuardOrders(vm[1], call[c][1].action) :
                            tx[c][1] = transform(vm[1], marking[c], call[c][1].action,
                                                 call[c][1].multiple, guardIter))

\* C21, reached: while the call of one caller is under way, the other holds
\* the Transaction of the same action and multiplier on a different marking,
\* with an output that is not the machine's initial vector.
C21_Witness ==
    /\ phase = "ready"
    /\ call["c1"] # None /\ tx["c1"] = None
    /\ tx["c2"] # None /\ tx["c2"][1].ok
    /\ call["c2"] = call["c1"]
    /\ marking["c1"] # marking["c2"]
    /\ tx["c2"][1].output # vm[1].initial
    /\ tx["c2"][1].output # marking["c2"]

----------------------------------------------------------------------------
(* Determinism, workflow steps and the reentry flag. *)

\* C36: the Transaction of a call, or its panic, is the one transform gives
\* for that machine, state, action and multiplier in whatever order the
\* guards of the transition are visited.
C36_Deterministic ==
    (vm # None /\ tx # None)
        => \A guardIter \in GuardOrders(vm[1], call[1].action) :
              transform(vm[1], marking, call[1].action, call[1].multiple, guardIter)
                  = tx[1]

\* C36, reached: a transition with two guards fired on a state where one of
\* them inhibits and the other does not.
C36_Witness ==
    /\ Fired /\ Len(marking) = Len(machine.capacity)
    /\ Cardinality(DOMAIN fired_guards) = 2
    /\ \E j, k \in DOMAIN fired_guards :
          /\ guard_outcome(machine, marking, fired_guards[j], fired_multiple) = "inhibits"
          /\ guard_outcome(machine, marking, fired_guards[k], fired_multiple) = "passes"
    /\ res.inhibited

\* the one active place of a marking that has exactly one
ActivePlace(s) == CHOOSE i \in 1..Len(s) : s[i] > 0

\* a Workflow firing with multiplier 1 from a marking within bounds that
\* has exactly one active place
WorkflowFromOne ==
    /\ Fired /\ machine.model_type = "Workflow"
    /\ fired_multiple = 1
    /\ InBounds(machine, marking)
    /\ ActiveCount(marking) = 1

\* C38 as stated: such a firing is ok only if the transition consumes from
\* the active place, and a transition with input places, none of which
\* holds a token, does not fire ok.
C38_Original ==
    (WorkflowFromOne /\ res.ok)
        => /\ fired_transition.delta[ActivePlace(marking)] < 0
           /\ ~((\E i \in Slots : fired_transition.delta[i] < 0)
                /\ (\A i \in Slots : fired_transition.delta[i] < 0 => marking[i] = 0))

\* C38, amended: such a firing is ok only if the transition consumes from the
\* active place or the output is the marking it was given (the token stays
\* where it is); a transition whose input places are all empty can fire ok.
C38_WorkflowMoves ==
    (WorkflowFromOne /\ res.ok)
        => \/ fired_transition.delta[ActivePlace(marking)] < 0
           \/ res.output = marking

\* C38, reached: a transition whose only input place is empty fires ok from
\* a marking with one active place elsewhere, with underflow reported and
\* the marking returned as it was.
C38_Witness ==
    /\ WorkflowFromOne /\ res.ok /\ res.underflow
    /\ fired_transition.delta[ActivePlace(marking)] = 0
    /\ \E i \in Slots : fired_transition.delta[i] < 0
    /\ \A i \in Slots : fired_transition.delta[i] < 0 => marking[i] = 0
    /\ res.output = marking

\* C39: every transition of every compiled machine has allow_reentry false,
\* so a Workflow Transaction carries the overflow flag vector_add computed
\* and is ok exactly by the ordinary rule.
C39_NoReentry ==
    /\ vm # None
          => (\A m \in 1..Len(vm) : \A t \in DOMAIN vm[m].transitions :
                ~vm[m].transitions[t].allow_reentry)
    /\ (Fired /\ machine.model_type = "Workflow")
          => /\ res.overflow = vector_add(machine.capacity, marking,
                                          fired_transition.delta, fired_multiple).overflow
             /\ (res.ok <=> (ActiveCount(res.output) = 1 /\ ~res.inhibited))

\* C39, reached: a Workflow firing that overflowed, left one active place
\* and was not inhibited, and still reports its overflow.
C39_Witness ==
    /\ Fired /\ machine.model_type = "Workflow"
    /\ Len(marking) = Len(machine.capacity)
    /\ vector_add(machine.capacity, marking, fired_transition.delta, fired_multiple).overflow
    /\ ActiveCount(res.output) = 1 /\ ~res.inhibited
    /\ res.overflow /\ res.ok

----------------------------------------------------------------------------
(* The initial vector against the capacities. *)

----------------------------------------------------------------------------
(* Weights of the arcs declared through the Builder. *)

\* C32: every arc added through arrow or guard has a weight of at least 1,
\* and a call that panics leaves the graph, its arc list included, as it
\* was; only a call that does not panic adds an arc.
C32_PositiveWeights ==
    /\ [](\A i \in 1..Len(net.arcs) :
            net.arcs[i].weight # None /\ net.arcs[i].weight[1] >= 1)
    /\ [][phase' = "panicked" => net' = net]_vars
    /\ [][net'.arcs # net.arcs => phase' = "declare"]_vars

\* C32, reached: a call was rejected after an arc had been added, and the
\* arc list still holds that one arc.
C32_Witness ==
    /\ phase = "panicked"
    /\ Len(net.arcs) = 1
    /\ net.arcs[1].weight = Some(MaxWeight)

----------------------------------------------------------------------------
(* The reentry exception of workflow_fire. *)

\* what vector_add computes for the call, before any clamping
Unclamped == vector_add(machine.capacity, marking, fired_transition.delta, fired_multiple)

\* the fired transition is marked allow_reentry, the un-clamped computation
\* overflowed, the clamped output has one active place and no guard inhibits
ReentryCase ==
    /\ fired_transition.allow_reentry
    /\ Unclamped.overflow
    /\ ActiveCount(res.output) = 1
    /\ ~res.inhibited

\* C31: a Workflow firing in the reentry case is ok with overflow false; any
\* other Workflow firing is ok exactly when its clamped output has one active
\* place and no guard inhibits, and reports the overflow that was computed;
\* underflow is reported as computed in both.
C31_Reentry ==
    (Fired /\ machine.model_type = "Workflow")
        => /\ res.underflow = Unclamped.underflow
           /\ IF ReentryCase
              THEN res.ok /\ ~res.overflow
              ELSE /\ res.ok <=> (ActiveCount(res.output) = 1 /\ ~res.inhibited)
                   /\ res.overflow = Unclamped.overflow

\* C31, reached: a transition marked allow_reentry fires into the place that
\* is already active: the computation overflows, the firing is ok and the
\* Transaction reports no overflow.
C31_Witness ==
    /\ Fired /\ machine.model_type = "Workflow"
    /\ InBounds(machine, marking)
    /\ ReentryCase
    /\ res.ok /\ ~res.overflow

----------------------------------------------------------------------------
(* Threads of firings: repetition, undoing and order. *)

\* a thread of calls was made on the compiled machine and none panicked
Threaded ==
    /\ phase = "ready" /\ tx # <<>>
    /\ \A k \in 1..Len(tx) : ~tx[k].panicked

\* every call of the thread fires the same action with multiplier 1
SingleFirings ==
    \A k \in 1..Len(call) : call[k].action = call[1].action /\ call[k].multiple = 1

\* one transform call on the marking the thread started from
Alone(action, multiple) == transform(vm[1], marking, action, multiple, <<>>)

\* C33: for a PetriNet machine, a transition without guards and a marking
\* within bounds, a thread of m firings with multiplier 1 ends in the output
\* of one firing with multiplier m, and that firing is ok exactly when all m
\* single firings are.
C33_MultipleIsRepeat ==
    (/\ Threaded /\ SingleFirings
     /\ vm[1].model_type = "PetriNet"
     /\ vm[1].transitions[call[1].action].guards = <<>>
     /\ InBounds(vm[1], marking))
        => /\ Alone(call[1].action, Len(tx)).output = tx[Len(tx)].output
           /\ Alone(call[1].action, Len(tx)).ok <=> \A k \in 1..Len(tx) : tx[k].ok

\* C33, reached: two single firings of a transition that moves a token, the
\* first ok and the second not, against one firing with multiplier 2.
C33_Witness ==
    /\ Threaded /\ SingleFirings /\ Len(tx) = 2
    /\ vm[1].model_type = "PetriNet"
    /\ InBounds(vm[1], marking)
    /\ tx[1].ok /\ ~tx[2].ok
    /\ tx[2].output # tx[1].output
    /\ ~Alone(call[1].action, 2).ok

\* C34: in a PetriNet or Elementary machine, firing an action with
\* multiplier m and then with multiplier -m gives back the marking the
\* thread started from, and a firing with multiplier 0 returns its state.
C34_NegatedUndoes ==
    Threaded
        => /\ \A k \in 1..Len(tx) :
                 call[k].multiple = 0
                     => tx[k].output = (IF k = 1 THEN marking ELSE tx[k - 1].output)
           /\ (/\ Len(tx) = 2
               /\ call[2].action = call[1].action
               /\ call[2].multiple = 0 - call[1].multiple)
                 => tx[2].output = marking

\* C34, reached: a firing with multiplier MaxMultiple that changed the
\* marking, undone by the firing with the negated multiplier.
C34_Witness ==
    /\ Threaded /\ Len(tx) = 2
    /\ call[1].multiple = MaxMultiple
    /\ call[2] = [action |-> call[1].action, multiple |-> 0 - MaxMultiple]
    /\ tx[1].output # marking
    /\ tx[2].output = marking

\* the same two calls made in the other order
OtherOrder ==
    transform(vm[1],
              transform(vm[1], marking, call[2].action, call[2].multiple, <<>>).output,
              call[1].action, call[1].multiple, <<>>)

\* C35: in a PetriNet or Elementary machine, threading a marking through
\* two calls gives the output vector that threading it through the same two
\* calls in the other order gives.
C35_OutputsCommute ==
    (Threaded /\ Len(tx) = 2) => tx[2].output = OtherOrder.output

\* C35, reached: two different actions that both change the marking, with
\* the same output in both orders and an ok flag that differs.
C35_Witness ==
    /\ Threaded /\ Len(tx) = 2
    /\ call[1].action # call[2].action
    /\ tx[1].output # marking /\ tx[2].output # tx[1].output
    /\ tx[2].output = OtherOrder.output
    /\ tx[1].ok
    /\ ~transform(vm[1], marking, call[2].action, call[2].multiple, <<>>).ok

============================================================================
